---- MODULE Spec2Model ----
(***************************************************************************)
(* The four idService strategies of implementation_prework.go              *)
(* (noSyncIdService, atomicIdService, mutexIdService, goroutineIdService)  *)
(* driven by the RunService harness of implementation_prework_test.go.     *)
(***************************************************************************)
EXTENDS Integers, Sequences, FiniteSets, Bags, TLC

\* Bounds of the model.
NumWorkers == 2
NumCalls == 2
MaxStarts == 2

\* lastId := uint64(0) in RunService; the worker loop never assigns it again.
lastId == 0

Svc == {"a", "b"}
Workers == 1 .. NumWorkers
Kinds == {"noSync", "atomic", "mutex", "goroutine"}

VARIABLES
    svcs,      \* the service instances that have been constructed
    kind,      \* kind[s]: the strategy of instance s
    svcOf,     \* svcOf[w]: the instance worker w calls (RunService's service)
    id,        \* id[s]: the id field of noSync/atomic/mutexIdService
    lock,      \* lock[s]: worker holding the sync.Mutex of s, 0 when free
    closed,    \* closed[s]: the requests channel of s has been closed
    owners,    \* owners[s]: the goroutines launched by Start, each [pc, id]
    pc,        \* pc[w]: position of worker w
    tmp,       \* tmp[w]: value a worker holds between two steps of getNext
    j,         \* j[w]: completed iterations of the worker loop
    got,       \* got[w]: the id worker w received from its latest getNext call
    idChan,    \* idChan[s]: the ids the workers of s have sent to idChan (a bag)
    floor,     \* floor[w]: largest id that had been returned on svcOf[w] when
               \* w's latest call to a synchronised getNext began
    crashed,   \* an unrecovered panic has terminated the process
    verdict    \* verdict[s]: outcome of RunService on s

vars == <<svcs, kind, svcOf, id, lock, closed, owners, pc, tmp, j, got, idChan, floor,
          crashed, verdict>>

----------------------------------------------------------------------------
\* Helpers.

Max(S) == IF S = {} THEN 0 ELSE CHOOSE x \in S : \A y \in S : y <= x

WorkersOf(s) == {w \in Workers : svcOf[w] = s}

\* The distinct ids in idChan, and how many ids it holds.
idSet(s) == BagToSet(idChan[s])

idCount(s) == BagCardinality(idChan[s])

\* The goroutine started by Start: id := uint64(0), then the range loop.
NewOwner == [pc |-> "Listening", id |-> 0]

\* Construction of an instance of kind k: the zero value of the struct, and for
\* the goroutine kind MakeGoroutineIdService, which calls Start once.
MakeOwners(k) == IF k = "goroutine" THEN <<NewOwner>> ELSE <<>>

----------------------------------------------------------------------------
\* Initial states: one instance with all workers (Init), or two instances with
\* the workers divided between them (InitTwo).

InitCommon ==
    /\ id = [s \in Svc |-> 0]
    /\ lock = [s \in Svc |-> 0]
    /\ closed = [s \in Svc |-> FALSE]
    /\ owners = [s \in Svc |-> IF s \in svcs THEN MakeOwners(kind[s]) ELSE <<>>]
    /\ pc = [w \in Workers |-> "idle"]
    /\ tmp = [w \in Workers |-> 0]
    /\ j = [w \in Workers |-> 0]
    /\ got = [w \in Workers |-> 0]
    /\ idChan = [s \in Svc |-> EmptyBag]
    /\ floor = [w \in Workers |-> 0]
    /\ crashed = FALSE
    /\ verdict = [s \in Svc |-> "none"]

Init ==
    /\ svcs = {"a"}
    /\ \E k \in Kinds : kind = [s \in Svc |-> k]
    /\ svcOf = [w \in Workers |-> "a"]
    /\ InitCommon

InitSync ==
    /\ svcs = {"a"}
    /\ \E k \in Kinds \ {"noSync"} : kind = [s \in Svc |-> k]
    /\ svcOf = [w \in Workers |-> "a"]
    /\ InitCommon

InitNoSync ==
    /\ svcs = {"a"}
    /\ kind = [s \in Svc |-> "noSync"]
    /\ svcOf = [w \in Workers |-> "a"]
    /\ InitCommon

InitTwo ==
    /\ svcs = Svc
    /\ kind \in [Svc -> Kinds]
    /\ svcOf \in [Workers -> Svc]
    /\ InitCommon

\* RunService(t, service, 1, numCalls) on instance "a": worker 1 is its only
\* worker; the other workers run against instance "b".
InitSolo ==
    /\ svcs = Svc
    /\ kind \in [Svc -> Kinds]
    /\ svcOf = [w \in Workers |-> IF w = 1 THEN "a" ELSE "b"]
    /\ InitCommon

----------------------------------------------------------------------------
\* The worker loop of RunService.

\* id := service.getNext() is entered by worker w: what has been returned on its
\* instance so far is remembered.  It is recorded with the first step the call
\* takes inside getNext, which is at or after the invocation, so it includes
\* every id returned before the invocation.
Enter(w) ==
    /\ floor' = [floor EXCEPT ![w] = Max(idSet(svcOf[w]))]

\* getNext returned v: the monotonicity test against lastId, idChan <- id, j++.
Return(w, v) ==
    /\ IF v < lastId
       THEN /\ pc' = [pc EXCEPT ![w] = "failed"]
            /\ UNCHANGED <<j, got, idChan>>
       ELSE /\ got' = [got EXCEPT ![w] = v]
            /\ idChan' = [idChan EXCEPT ![svcOf[w]] = @ (+) SetToBag({v})]
            /\ j' = [j EXCEPT ![w] = @ + 1]
            /\ pc' = [pc EXCEPT ![w] =
                        IF j[w] + 1 = NumCalls THEN "done" ELSE "idle"]

----------------------------------------------------------------------------
\* noSyncIdService.getNext: i.id++ is a load and a store, return i.id a load.

noSyncLoad(w) ==
    /\ ~crashed
    /\ pc[w] = "idle"
    /\ kind[svcOf[w]] = "noSync"
    /\ tmp' = [tmp EXCEPT ![w] = id[svcOf[w]]]
    /\ pc' = [pc EXCEPT ![w] = "nsStore"]
    /\ UNCHANGED <<svcs, kind, svcOf, id, lock, closed, owners, j, got, idChan,
                   floor, crashed, verdict>>

\* Variant: the store adds two.
noSyncStoreTwo(w) ==
    /\ ~crashed
    /\ pc[w] = "nsStore"
    /\ id' = [id EXCEPT ![svcOf[w]] = tmp[w] + 2]
    /\ tmp' = [tmp EXCEPT ![w] = 0]
    /\ pc' = [pc EXCEPT ![w] = "nsReturn"]
    /\ UNCHANGED <<svcs, kind, svcOf, lock, closed, owners, j, got, idChan,
                   floor, crashed, verdict>>

noSyncStore(w) ==
    /\ ~crashed
    /\ pc[w] = "nsStore"
    /\ id' = [id EXCEPT ![svcOf[w]] = tmp[w] + 1]
    /\ tmp' = [tmp EXCEPT ![w] = 0]
    /\ pc' = [pc EXCEPT ![w] = "nsReturn"]
    /\ UNCHANGED <<svcs, kind, svcOf, lock, closed, owners, j, got, idChan,
                   floor, crashed, verdict>>

noSyncReturn(w) ==
    /\ ~crashed
    /\ pc[w] = "nsReturn"
    /\ Return(w, id[svcOf[w]])
    /\ UNCHANGED <<svcs, kind, svcOf, id, lock, closed, owners, tmp, floor,
                   crashed, verdict>>

----------------------------------------------------------------------------
\* atomicIdService.getNext: return atomic.AddUint64(&i.id, 1), one indivisible
\* step that stores id+1 and returns the new value.

\* Variant: the counter is one package-level variable shared by all instances.
atomicGetNextGlobal(w) ==
    /\ ~crashed
    /\ pc[w] = "idle"
    /\ kind[svcOf[w]] = "atomic"
    /\ Enter(w)
    /\ id' = [s \in Svc |-> id[svcOf[w]] + 1]
    /\ Return(w, id[svcOf[w]] + 1)
    /\ UNCHANGED <<svcs, kind, svcOf, lock, closed, owners, tmp, crashed,
                   verdict>>

\* Variant: the value before the addition is returned.
atomicGetNextOld(w) ==
    /\ ~crashed
    /\ pc[w] = "idle"
    /\ kind[svcOf[w]] = "atomic"
    /\ Enter(w)
    /\ id' = [id EXCEPT ![svcOf[w]] = @ + 1]
    /\ Return(w, id[svcOf[w]])
    /\ UNCHANGED <<svcs, kind, svcOf, lock, closed, owners, tmp, crashed,
                   verdict>>

atomicGetNext(w) ==
    /\ ~crashed
    /\ pc[w] = "idle"
    /\ kind[svcOf[w]] = "atomic"
    /\ Enter(w)
    /\ id' = [id EXCEPT ![svcOf[w]] = @ + 1]
    /\ Return(w, id[svcOf[w]] + 1)
    /\ UNCHANGED <<svcs, kind, svcOf, lock, closed, owners, tmp, crashed,
                   verdict>>

----------------------------------------------------------------------------
\* mutexIdService.getNext: i.Lock(); defer i.Unlock(); i.id += 1; return i.id.
\* The result i.id is evaluated before the deferred Unlock runs.

\* Variant: Lock does not wait for the holder.
mutexLockNoWait(w) ==
    /\ ~crashed
    /\ pc[w] = "idle"
    /\ kind[svcOf[w]] = "mutex"
    /\ Enter(w)
    /\ lock' = [lock EXCEPT ![svcOf[w]] = w]
    /\ pc' = [pc EXCEPT ![w] = "mxLoad"]
    /\ UNCHANGED <<svcs, kind, svcOf, id, closed, owners, tmp, j, got, idChan,
                   crashed, verdict>>

mutexLock(w) ==
    /\ ~crashed
    /\ pc[w] = "idle"
    /\ kind[svcOf[w]] = "mutex"
    /\ lock[svcOf[w]] = 0
    /\ Enter(w)
    /\ lock' = [lock EXCEPT ![svcOf[w]] = w]
    /\ pc' = [pc EXCEPT ![w] = "mxLoad"]
    /\ UNCHANGED <<svcs, kind, svcOf, id, closed, owners, tmp, j, got, idChan,
                   crashed, verdict>>

mutexLoad(w) ==
    /\ ~crashed
    /\ pc[w] = "mxLoad"
    /\ tmp' = [tmp EXCEPT ![w] = id[svcOf[w]]]
    /\ pc' = [pc EXCEPT ![w] = "mxStore"]
    /\ UNCHANGED <<svcs, kind, svcOf, id, lock, closed, owners, j, got, idChan, floor,
                   crashed, verdict>>

mutexStore(w) ==
    /\ ~crashed
    /\ pc[w] = "mxStore"
    /\ id' = [id EXCEPT ![svcOf[w]] = tmp[w] + 1]
    /\ tmp' = [tmp EXCEPT ![w] = 0]
    /\ pc' = [pc EXCEPT ![w] = "mxResult"]
    /\ UNCHANGED <<svcs, kind, svcOf, lock, closed, owners, j, got, idChan,
                   floor, crashed, verdict>>

mutexResult(w) ==
    /\ ~crashed
    /\ pc[w] = "mxResult"
    /\ tmp' = [tmp EXCEPT ![w] = id[svcOf[w]]]
    /\ pc' = [pc EXCEPT ![w] = "mxUnlock"]
    /\ UNCHANGED <<svcs, kind, svcOf, id, lock, closed, owners, j, got, idChan, floor,
                   crashed, verdict>>

\* Variant: getNext returns without releasing the lock.
mutexUnlockKeeps(w) ==
    /\ ~crashed
    /\ pc[w] = "mxUnlock"
    /\ Return(w, tmp[w])
    /\ tmp' = [tmp EXCEPT ![w] = 0]
    /\ UNCHANGED <<svcs, kind, svcOf, id, lock, closed, owners, floor, crashed,
                   verdict>>

mutexUnlock(w) ==
    /\ ~crashed
    /\ pc[w] = "mxUnlock"
    /\ lock' = [lock EXCEPT ![svcOf[w]] = 0]
    /\ Return(w, tmp[w])
    /\ tmp' = [tmp EXCEPT ![w] = 0]
    /\ UNCHANGED <<svcs, kind, svcOf, id, closed, owners, floor, crashed,
                   verdict>>

----------------------------------------------------------------------------
\* goroutineIdService.  Both channels are unbuffered, so a send and the
\* matching receive are one joint step of the two goroutines.

Owners(s) == 1 .. Len(owners[s])

\* Start: go func() { id := uint64(0); for range s.requests { ... } }()
\* setup() calls it before RunService launches the workers.
Start(s) ==
    /\ ~crashed
    /\ s \in svcs
    /\ kind[s] = "goroutine"
    /\ Len(owners[s]) < MaxStarts
    /\ \A w \in WorkersOf(s) : pc[w] = "idle" /\ j[w] = 0
    /\ owners' = [owners EXCEPT ![s] = Append(@, NewOwner)]
    /\ UNCHANGED <<svcs, kind, svcOf, id, lock, closed, pc, tmp, j, got, idChan, floor,
                   crashed, verdict>>

\* Stop: close(s.requests); closing a closed channel panics.
Stop(s) ==
    /\ ~crashed
    /\ s \in svcs
    /\ kind[s] = "goroutine"
    /\ IF closed[s]
       THEN crashed' = TRUE /\ UNCHANGED closed
       ELSE closed' = [closed EXCEPT ![s] = TRUE] /\ UNCHANGED crashed
    /\ UNCHANGED <<svcs, kind, svcOf, id, lock, owners, pc, tmp, j, got, idChan, floor, verdict>>

\* getNext: s.requests <- struct{}{} is taken by an owner blocked in range.
getNextSend(w, o) ==
    /\ ~crashed
    /\ pc[w] = "idle"
    /\ kind[svcOf[w]] = "goroutine"
    /\ ~closed[svcOf[w]]
    /\ o \in Owners(svcOf[w])
    /\ owners[svcOf[w]][o].pc = "Listening"
    /\ Enter(w)
    /\ owners' = [owners EXCEPT ![svcOf[w]][o].pc = "Incrementing"]
    /\ pc' = [pc EXCEPT ![w] = "recv"]
    /\ UNCHANGED <<svcs, kind, svcOf, id, lock, closed, tmp, j, got, idChan,
                   crashed, verdict>>

\* Variant: the send on the closed channel is dropped and the caller goes on
\* to wait for a response.
getNextSendClosedWaits(w) ==
    /\ ~crashed
    /\ pc[w] = "idle"
    /\ kind[svcOf[w]] = "goroutine"
    /\ closed[svcOf[w]]
    /\ pc' = [pc EXCEPT ![w] = "recv"]
    /\ UNCHANGED <<svcs, kind, svcOf, id, lock, closed, owners, tmp, j, got,
                   idChan, floor, crashed, verdict>>

\* getNext: s.requests <- struct{}{} on a closed channel panics.
getNextSendClosed(w) ==
    /\ ~crashed
    /\ pc[w] = "idle"
    /\ kind[svcOf[w]] = "goroutine"
    /\ closed[svcOf[w]]
    /\ pc' = [pc EXCEPT ![w] = "panicked"]
    /\ crashed' = TRUE
    /\ UNCHANGED <<svcs, kind, svcOf, id, lock, closed, owners, tmp, j, got, idChan,
                   floor, verdict>>

\* Variant: id is declared inside the loop body, so every response is 1.
ownerIncrementFresh(s, o) ==
    /\ ~crashed
    /\ o \in Owners(s)
    /\ owners[s][o].pc = "Incrementing"
    /\ owners' = [owners EXCEPT ![s][o] = [pc |-> "Responding", id |-> 1]]
    /\ UNCHANGED <<svcs, kind, svcOf, id, lock, closed, pc, tmp, j, got, idChan,
                   floor, crashed, verdict>>

\* Variant: the counter is a field of the service struct, which every owner
\* goroutine increments and sends.
ownerIncrementShared(s, o) ==
    /\ ~crashed
    /\ o \in Owners(s)
    /\ owners[s][o].pc = "Incrementing"
    /\ id' = [id EXCEPT ![s] = @ + 1]
    /\ owners' = [owners EXCEPT ![s][o] =
                    [pc |-> "Responding", id |-> id[s] + 1]]
    /\ UNCHANGED <<svcs, kind, svcOf, lock, closed, pc, tmp, j, got, idChan,
                   floor, crashed, verdict>>

\* Owner: id++
ownerIncrement(s, o) ==
    /\ ~crashed
    /\ o \in Owners(s)
    /\ owners[s][o].pc = "Incrementing"
    /\ owners' = [owners EXCEPT ![s][o] =
                    [pc |-> "Responding", id |-> @.id + 1]]
    /\ UNCHANGED <<svcs, kind, svcOf, id, lock, closed, pc, tmp, j, got, idChan, floor,
                   crashed, verdict>>

\* Owner: s.responses <- id, taken by a caller blocked in return <-s.responses.
getNextReceive(w, o) ==
    /\ ~crashed
    /\ pc[w] = "recv"
    /\ o \in Owners(svcOf[w])
    /\ owners[svcOf[w]][o].pc = "Responding"
    /\ owners' = [owners EXCEPT ![svcOf[w]][o].pc = "Listening"]
    /\ Return(w, owners[svcOf[w]][o].id)
    /\ UNCHANGED <<svcs, kind, svcOf, id, lock, closed, tmp, floor, crashed,
                   verdict>>

\* Variant: the owner also leaves the loop when the close finds it holding a
\* request it has not answered yet.
ownerExitEarly(s, o) ==
    /\ ~crashed
    /\ o \in Owners(s)
    /\ owners[s][o].pc \in {"Listening", "Incrementing"}
    /\ closed[s]
    /\ owners' = [owners EXCEPT ![s][o].pc = "Stopped"]
    /\ UNCHANGED <<svcs, kind, svcOf, id, lock, closed, pc, tmp, j, got, idChan,
                   floor, crashed, verdict>>

\* Owner: range over a closed channel ends the loop and the goroutine.
ownerExit(s, o) ==
    /\ ~crashed
    /\ o \in Owners(s)
    /\ owners[s][o].pc = "Listening"
    /\ closed[s]
    /\ owners' = [owners EXCEPT ![s][o].pc = "Stopped"]
    /\ UNCHANGED <<svcs, kind, svcOf, id, lock, closed, pc, tmp, j, got, idChan, floor,
                   crashed, verdict>>

----------------------------------------------------------------------------
\* RunService after eg.Wait(): the first worker error fails the run, otherwise
\* the maximum of idChan is compared with numWorkers*numCalls.

expectedMax(s) == Cardinality(WorkersOf(s)) * NumCalls

maxId(s) == Max(idSet(s))

\* Variant: the number of ids received is compared with numWorkers*numCalls.
RunServiceVerdictCount(s) ==
    IF \E w \in WorkersOf(s) : pc[w] = "failed" THEN "failMonotonic"
    ELSE IF idCount(s) # expectedMax(s) THEN "failMax"
    ELSE "pass"

RunServiceVerdict(s) ==
    IF \E w \in WorkersOf(s) : pc[w] = "failed" THEN "failMonotonic"
    ELSE IF maxId(s) # expectedMax(s) THEN "failMax"
    ELSE "pass"

RunServiceEnd(s) ==
    /\ ~crashed
    /\ s \in svcs
    /\ verdict[s] = "none"
    /\ \A w \in WorkersOf(s) : pc[w] \in {"done", "failed"}
    /\ verdict' = [verdict EXCEPT ![s] = RunServiceVerdict(s)]
    /\ UNCHANGED <<svcs, kind, svcOf, id, lock, closed, owners, pc, tmp, j, got, idChan,
                   floor, crashed>>

----------------------------------------------------------------------------

\* One step of a worker inside noSyncIdService.getNext.
noSyncStep(w) ==
    \/ noSyncLoad(w)
    \/ noSyncStore(w)
    \/ noSyncReturn(w)

\* One step of a worker inside the getNext of a synchronised strategy.
syncStep(w) ==
    \/ atomicGetNext(w)
    \/ mutexLock(w)
    \/ mutexLoad(w)
    \/ mutexStore(w)
    \/ mutexResult(w)
    \/ mutexUnlock(w)
    \/ getNextSendClosed(w)
    \/ \E o \in 1 .. MaxStarts : getNextSend(w, o)
    \/ \E o \in 1 .. MaxStarts : getNextReceive(w, o)

\* A step of an owner goroutine, of Stop, or the end of RunService.
serviceStep(s) ==
    \/ Stop(s)
    \/ RunServiceEnd(s)
    \/ \E o \in 1 .. MaxStarts : ownerIncrement(s, o)
    \/ \E o \in 1 .. MaxStarts : ownerExit(s, o)

Next ==
    \/ \E w \in Workers : noSyncStep(w)
    \/ \E w \in Workers : syncStep(w)
    \/ \E s \in Svc : Start(s)
    \/ \E s \in Svc : serviceStep(s)

\* The synchronised strategies as their constructors leave them: Start is
\* called by MakeGoroutineIdService and by nobody else.
NextSync ==
    \/ \E w \in Workers : syncStep(w)
    \/ \E s \in Svc : serviceStep(s)

\* One instance, every strategy, with the harness free to call Start again.
Spec == Init /\ [][Next]_vars

\* One instance of a synchronised strategy, never started again.
SpecSync == InitSync /\ [][NextSync]_vars

\* One noSyncIdService instance.
NextNoSync ==
    \/ \E w \in Workers : noSyncStep(w)
    \/ \E s \in Svc : RunServiceEnd(s)

SpecNoSync == InitNoSync /\ [][NextNoSync]_vars

\* Every strategy, each instance started once by its constructor.
NextOnce ==
    \/ \E w \in Workers : noSyncStep(w)
    \/ \E w \in Workers : syncStep(w)
    \/ \E s \in Svc : serviceStep(s)

\* A single-worker run on instance "a" beside a run on instance "b".
SpecSolo == InitSolo /\ [][NextOnce]_vars

\* Two instances side by side.
SpecTwo == InitTwo /\ [][Next]_vars

\* Scheduling: a goroutine that can take a step is not held back forever.  This
\* holds for every worker started with eg.Go, for every owner goroutine and for
\* the harness after eg.Wait(); nothing obliges the harness to call Start or
\* Stop.
FairSpec ==
    /\ Spec
    /\ \A w \in Workers : WF_vars(noSyncStep(w) \/ syncStep(w))
    /\ \A s \in Svc : \A o \in 1 .. MaxStarts :
           WF_vars(ownerIncrement(s, o) \/ ownerExit(s, o))
    /\ \A s \in Svc : WF_vars(RunServiceEnd(s))

FairSync ==
    /\ SpecSync
    /\ \A w \in Workers : WF_vars(syncStep(w))
    /\ \A s \in Svc : \A o \in 1 .. MaxStarts :
           WF_vars(ownerIncrement(s, o) \/ ownerExit(s, o))
    /\ \A s \in Svc : WF_vars(RunServiceEnd(s))

----------------------------------------------------------------------------
\* Properties.

\* Every worker of s has finished its numCalls calls.
AllDone(s) == WorkersOf(s) # {} /\ \A w \in WorkersOf(s) : pc[w] = "done"

\* No id is in idChan twice.
NoDuplicate(s) == \A v \in idSet(s) : CopiesIn(v, idChan[s]) = 1

\* idChan holds each of 1..n once and nothing else.
ExactlyOnce(s, n) == idChan[s] = SetToBag(1 .. n)

\* C1: atomicIdService with N workers of M calls returns exactly 1..N*M, each
\* once: at every moment the ids returned so far are 1..id without duplicate
\* or gap, and when all workers are done they are 1..N*M.
C1_AtomicExactlyOnce ==
    \A s \in svcs : kind[s] = "atomic" =>
        /\ ExactlyOnce(s, id[s])
        /\ AllDone(s) => ExactlyOnce(s, expectedMax(s))

C1_Witness ==
    /\ kind["a"] = "atomic"
    /\ AllDone("a")
    /\ got[1] = 3
    /\ got[2] = 4

\* C2: mutexIdService with N workers of M calls returns exactly 1..N*M, each
\* once, so the maximum observed is N*M; no id is ever returned twice.
C2_MutexExactlyOnce ==
    \A s \in svcs : kind[s] = "mutex" =>
        /\ NoDuplicate(s)
        /\ idSet(s) \subseteq 1 .. id[s]
        /\ AllDone(s) => /\ ExactlyOnce(s, expectedMax(s))
                         /\ maxId(s) = expectedMax(s)

C2_Witness ==
    /\ kind["a"] = "mutex"
    /\ AllDone("a")
    /\ maxId("a") = NumWorkers * NumCalls
    /\ got[2] = 3

\* C3: a goroutineIdService started once (by MakeGoroutineIdService) returns
\* exactly 1..N*M to N workers of M calls, without duplicate or skipped value.
C3_GoroutineExactlyOnce ==
    \A s \in svcs : (kind[s] = "goroutine" /\ Len(owners[s]) = 1) =>
        /\ NoDuplicate(s)
        /\ idSet(s) \subseteq 1 .. owners[s][1].id
        /\ AllDone(s) => ExactlyOnce(s, expectedMax(s))

C3_Witness ==
    /\ kind["a"] = "goroutine"
    /\ Len(owners["a"]) = 1
    /\ AllDone("a")
    /\ got[1] = 3
    /\ got[2] = 4

\* The owner goroutines of s that have not left their range loop.
ActiveOwners(s) == {o \in Owners(s) : owners[s][o].pc # "Stopped"}

\* C4: the service of the "goroutines" test case (MakeGoroutineIdService and
\* one more Start, two owners) returns a maximum of N*M in every interleaving,
\* so RunService passes.
C4_DoubleStartPasses ==
    \A s \in svcs : (kind[s] = "goroutine" /\ Len(owners[s]) = 2) =>
        /\ AllDone(s) => maxId(s) = expectedMax(s)
        /\ verdict[s] \in {"none", "pass"}

\* C5: for the atomic, mutex and once-started goroutine services, each value a
\* worker receives from getNext is greater than the value it received from
\* its previous call.
C5_WorkerStrictlyIncreasing ==
    [][\A w \in Workers : j'[w] = j[w] + 1 => got'[w] > got[w]]_vars

C5_Witness ==
    /\ kind["a"] = "goroutine"
    /\ j[1] = 2
    /\ got[1] = 3
    /\ got[2] = 2

\* The ids of a noSyncIdService stay within the number of stores performed.
storesDone(s) ==
    LET RECURSIVE Sum(_)
        Sum(W) == IF W = {} THEN 0
                  ELSE LET w == CHOOSE x \in W : TRUE
                       IN  j[w] + (IF pc[w] = "nsReturn" THEN 1 ELSE 0)
                           + Sum(W \ {w})
    IN  Sum(WorkersOf(s))

\* C6: with two or more workers noSyncIdService has runs in which two calls
\* return the same id and the maximum stays below N*M (the witness); a race
\* only loses increments: no id exceeds the number of stores performed, so
\* the maximum never exceeds N*M.
C6_NoSyncOnlyLoses ==
    \A s \in svcs : kind[s] = "noSync" =>
        /\ id[s] <= storesDone(s)
        /\ idSet(s) \subseteq 1 .. storesDone(s)
        /\ AllDone(s) => maxId(s) <= expectedMax(s)

C6_Witness ==
    /\ kind["a"] = "noSync"
    /\ AllDone("a")
    /\ ~NoDuplicate("a")
    /\ maxId("a") < expectedMax("a")

\* C7: for the atomic, mutex and once-started goroutine services, a call that
\* begins after another call has returned receives a greater id: the id a
\* worker's latest call returned exceeds every id that had been returned
\* when that call began.
C7_RealTimeOrder ==
    \A w \in Workers :
        (/\ svcOf[w] \in svcs
         /\ kind[svcOf[w]] \in {"atomic", "mutex", "goroutine"}
         /\ Len(owners[svcOf[w]]) <= 1
         /\ j[w] >= 1
         /\ pc[w] \in {"idle", "done"})
        => got[w] > floor[w]

C7_Witness ==
    /\ kind["a"] = "mutex"
    /\ pc[1] = "done"
    /\ floor[1] = 3
    /\ got[1] = 4
    /\ got[2] = 3

\* C8: a getNext call made after Stop does not block and returns no id: its
\* send on the closed requests channel is enabled and is its only step, and
\* that step ends in a panic without adding an id to idChan.
C8_GetNextAfterStopPanics ==
    /\ [](\A w \in Workers :
            (/\ kind[svcOf[w]] = "goroutine"
             /\ closed[svcOf[w]]
             /\ pc[w] = "idle"
             /\ ~crashed)
            => /\ ENABLED getNextSendClosed(w)
               /\ \A o \in 1 .. MaxStarts : ~ENABLED getNextSend(w, o))
    /\ [][\A w \in Workers :
            (/\ kind[svcOf[w]] = "goroutine"
             /\ closed[svcOf[w]]
             /\ pc[w] = "idle"
             /\ pc'[w] # "idle")
            => /\ pc'[w] = "panicked"
               /\ crashed'
               /\ idChan' = idChan
               /\ got' = got]_vars

C8_Witness ==
    /\ kind["a"] = "goroutine"
    /\ closed["a"]
    /\ pc[1] = "panicked"
    /\ crashed

\* C9: whatever MakeGoroutineIdService and Start calls are made on an
\* instance, at most one owner goroutine is active on its channel pair.
C9_AtMostOneOwner ==
    \A s \in svcs : Cardinality(ActiveOwners(s)) <= 1

\* What belongs to instance s, and what belongs to worker w.
svcState(s) == <<id[s], lock[s], closed[s], owners[s], idChan[s], verdict[s]>>

workerState(w) == <<pc[w], tmp[w], j[w], got[w], floor[w]>>

\* No step of a worker touches another instance than its own, and no step
\* changes two instances.
Frame ==
    /\ \A w \in Workers : workerState(w)' # workerState(w) =>
          \A t \in Svc \ {svcOf[w]} : svcState(t)' = svcState(t)
    /\ \A s \in Svc : svcState(s)' # svcState(s) =>
          \A t \in Svc \ {s} : svcState(t)' = svcState(t)

\* The first id returned on instance s is 1.
FirstIsOne(s) == (idCount(s) = 0 /\ idCount(s)' = 1) => idSet(s)' = {1}

C11_SingleWorkerCounts ==
    \A w \in Workers : WorkersOf(svcOf[w]) = {w} =>
        /\ pc[w] # "failed"
        /\ j[w] >= 1 => got[w] = j[w]
        /\ ExactlyOnce(svcOf[w], j[w])

C11_Witness ==
    /\ WorkersOf("a") = {1}
    /\ kind["a"] = "noSync"
    /\ j[1] = NumCalls
    /\ got[1] = NumCalls
    /\ pc[1] = "done"

\* C12: RunService reports a monotonicity failure for every run in which a
\* worker receives a value lower than the one its own previous call returned:
\* no worker ever takes such a value as the result of a successful call.
C12_DecreaseIsReported ==
    [][\A w \in Workers :
          (j[w] >= 1 /\ j'[w] = j[w] + 1) => got'[w] >= got[w]]_vars

\* C13: Stop() can be called any number of times on a started
\* goroutineIdService and no call ends in an error: the process only ever
\* terminates because a getNext call panicked, never because of Stop.
C13_StopNeverFails ==
    crashed => \E w \in Workers : pc[w] = "panicked"

AllStopped(s) == \A o \in Owners(s) : owners[s][o].pc = "Stopped"

pending(s) == {w \in WorkersOf(s) : pc[w] = "recv"}

\* The number of requests the owners of s have received: answered and pending.
received(s) == idCount(s) + Cardinality(pending(s))

\* The steps of the owner's loop: receive, id++, send, and the exit on close.
OwnerCycle ==
    { <<"Listening", "Incrementing">>, <<"Incrementing", "Responding">>,
      <<"Responding", "Listening">>, <<"Listening", "Stopped">> }

\* C16: a goroutineIdService with one owner follows Listening -> Incrementing
\* -> Responding -> Listening.  At most one request is received and not yet
\* answered, and there is one exactly while the owner is Incrementing or
\* Responding; the owner's value is the number of requests it has received
\* (one less while the id++ for the request just received is still to come);
\* each response carries the number of requests received and is taken by a
\* caller in the step that brings the owner back to Listening, the only state
\* in which it accepts a request.
C16_OwnerCycle ==
    /\ [](\A s \in svcs : (kind[s] = "goroutine" /\ Len(owners[s]) = 1) =>
            /\ Cardinality(pending(s)) <= 1
            /\ Cardinality(pending(s)) = 1
                   <=> owners[s][1].pc \in {"Incrementing", "Responding"}
            /\ owners[s][1].id =
                   IF owners[s][1].pc = "Incrementing"
                   THEN received(s) - 1 ELSE received(s))
    /\ [][\A s \in svcs : (kind[s] = "goroutine" /\ Len(owners[s]) = 1) =>
            /\ owners'[s][1].pc # owners[s][1].pc
                   => <<owners[s][1].pc, owners'[s][1].pc>> \in OwnerCycle
            /\ (owners[s][1].pc = "Responding" /\ owners'[s][1].pc = "Listening")
                   => \E w \in pending(s) :
                         /\ j'[w] = j[w] + 1
                         /\ got'[w] = owners[s][1].id
                         /\ got'[w] = received(s)
            /\ Cardinality(pending(s)') > Cardinality(pending(s))
                   => (owners[s][1].pc = "Listening"
                       /\ owners'[s][1].pc = "Incrementing")]_vars

C16_Witness ==
    /\ kind["a"] = "goroutine"
    /\ Len(owners["a"]) = 1
    /\ owners["a"][1] = [pc |-> "Responding", id |-> 3]
    /\ idCount("a") = 2
    /\ pending("a") = {2}
    /\ pc[1] = "idle"

\* C16 as stated: with one owner, at every moment the owner's private value
\* equals the number of requests it has received.
C16_Original ==
    \A s \in svcs : (kind[s] = "goroutine" /\ Len(owners[s]) = 1) =>
        owners[s][1].id = received(s)

\* The getNext calls on s that are between Lock and Unlock.
holders(s) ==
    {w \in WorkersOf(s) : pc[w] \in {"mxLoad", "mxStore", "mxResult", "mxUnlock"}}

\* C17: in mutexIdService at most one getNext call is between Lock and Unlock;
\* a call that is about to read id, to store id+1, to read id for the result or
\* to unlock holds the lock; and the lock is free whenever no call is between
\* Lock and Unlock, so every call that returned has released it.
C17_MutexExclusion ==
    \A s \in svcs : kind[s] = "mutex" =>
        /\ Cardinality(holders(s)) <= 1
        /\ \A w \in holders(s) : lock[s] = w
        /\ holders(s) = {} => lock[s] = 0

C17_Witness ==
    /\ kind["a"] = "mutex"
    /\ pc[1] = "mxResult"
    /\ lock["a"] = 1
    /\ id["a"] = 2
    /\ pc[2] = "idle"
    /\ j[2] = 1

\* C18: while Stop() is not called, every getNext call on atomicIdService,
\* mutexIdService and goroutineIdService eventually returns under fair
\* scheduling: a worker that has completed k of its calls eventually completes
\* call k+1, so every worker finishes and RunService reaches its verdict, unless
\* Stop() has closed the request channel in the meantime.
C18_GetNextReturns ==
    /\ \A w \in Workers : \A k \in 0 .. NumCalls - 1 :
          (j[w] = k) ~> (j[w] > k \/ closed[svcOf[w]])
    /\ \A s \in Svc :
          (s \in svcs) ~> (verdict[s] # "none" \/ closed[s])

C18_Witness ==
    /\ kind["a"] = "goroutine"
    /\ ~closed["a"]
    /\ \A w \in Workers : j[w] = NumCalls
    /\ verdict["a"] = "pass"

\* A receive on s.responses can complete.  The channel is unbuffered and no
\* statement closes it, so a receive completes only while an owner is sending.
receiveReady(s) == \E o \in Owners(s) : owners[s][o].pc = "Responding"

\* C19: when Stop() has closed the request channel and the owners have left
\* their loops, the response channel is closed as well, so a receive on it does
\* not block.
C19_ResponsesReleased ==
    \A s \in svcs :
        (kind[s] = "goroutine" /\ closed[s] /\ AllStopped(s)) => receiveReady(s)

\* C20 as stated: for every strategy, whenever RunService ends without
\* reporting a failure the values returned are exactly 1..N*M, each once.
C20_Original ==
    \A s \in svcs : verdict[s] = "pass" => ExactlyOnce(s, expectedMax(s))

\* C20: whenever RunService ends without reporting a failure, N*M values in
\* 1..N*M were returned and their maximum is N*M; for atomicIdService,
\* mutexIdService and goroutineIdService, started once or twice, they are
\* exactly 1..N*M without duplicate or gap, while a passing run of
\* noSyncIdService may contain a duplicate and a gap.
C20_PassMeansMax ==
    \A s \in svcs : verdict[s] = "pass" =>
        /\ maxId(s) = expectedMax(s)
        /\ idCount(s) = expectedMax(s)
        /\ idSet(s) \subseteq 1 .. expectedMax(s)
        /\ kind[s] # "noSync" => ExactlyOnce(s, expectedMax(s))

C20_Witness ==
    /\ kind["a"] = "goroutine"
    /\ Len(owners["a"]) = 2
    /\ verdict["a"] = "pass"
    /\ owners["a"][2].id = NumWorkers * NumCalls

============================================================================
